---- MODULE Spec2Model ----
(***************************************************************************)
(* A model of deepcell_tracking/utils.py: the label relabeler              *)
(* (clean_up_annotations), the pair sampling estimator (count_pairs), the  *)
(* archive codec (save_trks / load_trks) and the lineage statistics pass   *)
(* (trks_stats).                                                           *)
(*                                                                         *)
(* Arrays are sequences: a label volume is a matrix y[i][j] whose two axes *)
(* are (time, pixel) in the channels_last layout and (channel, time) in    *)
(* the channels_first layout, the remaining axes being flattened.  Strings *)
(* are sequences of one-character strings, so that lower(), endswith() and *)
(* splitext() are computed and not assumed.                                *)
(***************************************************************************)
EXTENDS Integers, Sequences, FiniteSets, TLC

VARIABLES
    op,                \* the call that ran last ("start" before any call)
    y,                 \* the caller's label array (the argument y)
    y0,                \* the value y held when the scenario started
    uid,               \* clean_up_annotations: the starting id <<id>>, or <<>> for None
    data_format,       \* "channels_first" or "channels_last"
    same_probability,  \* count_pairs: <<numerator, denominator>>
    prev,              \* the previous count_pairs call: <<probability, result>>
    filename,          \* the path the caller passes to the codec
    lineages,          \* the lineage graphs the caller passes to save_trks
    raw,               \* the raw tensor the caller passes to save_trks
    tracked,           \* the tracked tensor the caller passes to save_trks
    files,             \* the filesystem: path -> archive, or NoFile
    io,                \* the filesystem operations of the last call, in order
    result             \* what the last call returned or raised

vars == <<op, y, y0, uid, data_format, same_probability, prev, filename,
          lineages, raw, tracked, files, io, result>>

None == "None"

(***************************************************************************)
(* Bounds of the model.                                                    *)
(***************************************************************************)
MaxLabel == 2          \* labels of the enumerated arrays are 0..MaxLabel
MaxVolumeCells == 5    \* elements of an enumerated label volume
MaxUid == 2            \* explicit starting ids are 1..MaxUid
ScenarioPixels == 4    \* pixels of a frame of the two-frame scenario
MaxTensorCells == 4    \* elements of an enumerated 5-D label tensor
ProbDen == 4           \* probabilities are k / ProbDen, k in 1..ProbDen
MaxArchiveSize == 4    \* tensor elements plus lineage entries of an archive
MaxTrackLabel == 1     \* labels of an archived tracked tensor are 0..MaxTrackLabel
WideId == 10           \* a lineage id of more than one decimal digit
RawIntensity == 7      \* the value of the pixels of an archived raw tensor

Labels == 0..MaxLabel

(***************************************************************************)
(* numpy helpers.                                                          *)
(***************************************************************************)
RECURSIVE SumSeq(_)
SumSeq(s) ==
    IF s = <<>> THEN 0 ELSE s[1] + SumSeq(Tail(s))

RECURSIVE MaxSeq(_)
MaxSeq(s) ==
    IF Len(s) = 1 THEN s[1]
    ELSE LET m == MaxSeq(Tail(s)) IN IF s[1] >= m THEN s[1] ELSE m

MinOf(S) == CHOOSE m \in S : \A x \in S : m <= x

\* The values of a set in ascending order (np.unique returns them sorted).
RECURSIVE SortAsc(_)
SortAsc(S) ==
    IF S = {} THEN <<>>
    ELSE LET m == MinOf(S) IN <<m>> \o SortAsc(S \ {m})

\* np.unique(a): the sorted distinct values of a flattened array.
Unique(a) == SortAsc({a[i] : i \in DOMAIN a})

\* np.delete(cells, np.where(cells == 0))
DeleteZero(cells) == SelectSeq(cells, LAMBDA c : c # 0)

Int32Max == 2147483647

\* ndarray.astype('int32') of one element: values of the int32 range are kept,
\* the others wrap modulo 2^32
AsInt32(v) ==
    IF v >= -Int32Max - 1 /\ v <= Int32Max THEN v
    ELSE ((v + Int32Max + 1) % (2 * (Int32Max + 1))) - Int32Max - 1

Matrices(cells) ==
    UNION {[1..d0 -> [1..d1 -> Labels]] :
             <<d0, d1>> \in {s \in (1..cells) \X (1..cells) : s[1] * s[2] <= cells}}

(***************************************************************************)
(* clean_up_annotations                                                    *)
(***************************************************************************)
time_axis(fmt) == IF fmt = "channels_first" THEN 1 ELSE 0

\* y.shape[axis], axes counted from 0 as in numpy
ShapeAt(a, axis) == IF axis = 0 THEN Len(a) ELSE Len(a[1])

\* y[:, f] if data_format == 'channels_first' else y[f]   (f counted from 1)
FrameOf(a, f, fmt) ==
    IF fmt = "channels_first" THEN [i \in 1..Len(a) |-> a[i][f]] ELSE a[f]

\* y[:, frame] = new  /  y[frame] = new.  The element type of y is taken wide
\* enough for the ids written (no narrowing on assignment).
SetFrame(a, f, new, fmt) ==
    IF fmt = "channels_first"
    THEN [i \in 1..Len(a) |-> [a[i] EXCEPT ![f] = new[i]]]
    ELSE [a EXCEPT ![f] = new]

\* the first loop: the distinct non-background labels of every frame
AllUniques(a, fmt) ==
    [f \in 1..ShapeAt(a, time_axis(fmt)) |-> DeleteZero(Unique(FrameOf(a, f, fmt)))]

DefaultUidFromOne(all_uniques) == 1

\* sum(len(x) for x in all_uniques) + 1
DefaultUid(all_uniques) ==
    SumSeq([f \in DOMAIN all_uniques |-> Len(all_uniques[f])]) + 1

\* uid = ... if uid is None else uid   (the optional argument is <<>> or <<id>>)
StartUid(u, all_uniques) == IF u = <<>> THEN DefaultUid(all_uniques) ELSE u[1]

NextUidStuck(u) == u

\* uid += 1
NextUid(u) == u + 1

\* the inner loop over one frame's labels: <<y_frame_new, uid>>
RECURSIVE RelabelCells(_, _, _, _)
RelabelCells(y_frame, cells, new, u) ==
    IF cells = <<>> THEN <<new, u>>
    ELSE RelabelCells(y_frame, Tail(cells),
                      [p \in DOMAIN new |-> IF y_frame[p] = cells[1] THEN u ELSE new[p]],
                      NextUid(u))

\* the second loop, frame by frame, writing into the caller's array
RECURSIVE RelabelFrames(_, _, _, _, _)
RelabelFrames(a, all_uniques, f, u, fmt) ==
    IF f > Len(all_uniques) THEN a
    ELSE LET y_frame == FrameOf(a, f, fmt)
             zeros   == [p \in DOMAIN y_frame |-> 0]
             done    == RelabelCells(y_frame, all_uniques[f], zeros, u)
         IN  RelabelFrames(SetFrame(a, f, done[1], fmt), all_uniques, f + 1, done[2], fmt)

\* the caller's array when the call returns
CleanUpInPlace(a, u, fmt) ==
    LET all_uniques == AllUniques(a, fmt)
    IN  RelabelFrames(a, all_uniques, 1, StartUid(u, all_uniques), fmt)

\* y.astype('int32'): a new array
AsTypeInt32(a) == [i \in DOMAIN a |-> [j \in DOMAIN a[i] |-> AsInt32(a[i][j])]]

\* The two-frame volumes whose frame 0 holds the labels {1, 2} and whose frame 1
\* holds the labels {1, 3}, background elsewhere, in the channels_last layout.
ScenarioVolumes ==
    {v \in [1..2 -> [1..ScenarioPixels -> 0..3]] :
        /\ {v[1][p] : p \in 1..ScenarioPixels} = {0, 1, 2}
        /\ {v[2][p] : p \in 1..ScenarioPixels} = {0, 1, 3}}

InitRelabel ==
    /\ op = "start"
    /\ y \in Matrices(MaxVolumeCells) \cup ScenarioVolumes
    /\ y0 = y
    /\ uid \in {<<>>} \cup {<<u>> : u \in 1..MaxUid}
    /\ data_format \in {"channels_first", "channels_last"}
    /\ same_probability = None /\ prev = None
    /\ filename = None /\ lineages = None /\ raw = None /\ tracked = None
    /\ files = None /\ io = <<>>
    /\ result = None

clean_up_annotations ==
    /\ op = "start"
    /\ op' = "clean_up_annotations"
    /\ y' = CleanUpInPlace(y, uid, data_format)
    /\ result' = AsTypeInt32(y')
    /\ UNCHANGED <<y0, uid, data_format, same_probability, prev, filename,
                   lineages, raw, tracked, files, io>>

NextRelabel == clean_up_annotations

SpecRelabel == InitRelabel /\ [][NextRelabel]_vars

(***************************************************************************)
(* Properties of clean_up_annotations.                                     *)
(***************************************************************************)
Relabeled == op = "clean_up_annotations"

NumFramesOf(a) == ShapeAt(a, time_axis(data_format))

\* the non-background values of frame f of array a
CellsOf(a, f) ==
    {FrameOf(a, f, data_format)[p] : p \in DOMAIN FrameOf(a, f, data_format)} \ {0}

\* C1: global uniqueness.  In the returned volume every non-background value
\* occurs in exactly one frame, the number of distinct non-background output
\* values is the sum over the frames of the number of distinct non-background
\* input values of the frame, and every pixel that was 0 in the input is 0 in
\* the output.
C1_GlobalUniqueness ==
    Relabeled =>
        /\ \A f \in 1..NumFramesOf(result) : \A g \in 1..NumFramesOf(result) :
               f # g => CellsOf(result, f) \cap CellsOf(result, g) = {}
        /\ Cardinality(UNION {CellsOf(result, f) : f \in 1..NumFramesOf(result)})
             = SumSeq([f \in 1..NumFramesOf(y0) |-> Cardinality(CellsOf(y0, f))])
        /\ \A i \in DOMAIN y0 : \A j \in DOMAIN y0[i] :
               y0[i][j] = 0 => result[i][j] = 0

\* C1 witness: a relabeled volume in which one label was used in two frames and
\* another frame-label pair shares a frame with it.
C1_Witness ==
    /\ Relabeled
    /\ \E f \in 1..NumFramesOf(y0) : \E g \in 1..NumFramesOf(y0) :
          /\ f # g
          /\ CellsOf(y0, f) \cap CellsOf(y0, g) # {}
          /\ Cardinality(CellsOf(y0, f)) >= 2

\* the volumes of scenario A, called with no explicit starting id
ScenarioA ==
    /\ Relabeled
    /\ y0 \in ScenarioVolumes
    /\ data_format = "channels_last"
    /\ uid = <<>>

\* the output in which frame 0's labels 1, 2 became a, b and frame 1's labels
\* 1, 3 became c, d, the background staying 0
ScenarioOutput(a, b, c, d) ==
    << [p \in 1..ScenarioPixels |->
           IF y0[1][p] = 1 THEN a ELSE IF y0[1][p] = 2 THEN b ELSE 0],
       [p \in 1..ScenarioPixels |->
           IF y0[2][p] = 1 THEN c ELSE IF y0[2][p] = 3 THEN d ELSE 0] >>

\* C4 as claimed: in scenario A, with no explicit starting id, frame 0's labels
\* 1 and 2 get the ids 1 and 2 and frame 1's labels 1 and 3 get the ids 3 and 4.
C4_ScenarioA_Original == ScenarioA => result = ScenarioOutput(1, 2, 3, 4)

\* C4 amended: in scenario A, with no explicit starting id, the running counter
\* starts at 1 + 4 (one more than the number of frame-label pairs): frame 0's
\* labels 1 and 2 get the ids 5 and 6, frame 1's labels 1 and 3 get the ids 7
\* and 8, in frame order and ascending label order; the background stays 0.
C4_ScenarioA_Amended == ScenarioA => result = ScenarioOutput(5, 6, 7, 8)

\* C4 witness: scenario A has been relabeled.
C4_Witness == ScenarioA /\ result[1] # y0[1]

\* C7 as claimed: after the call the caller's volume holds the labels it held
\* before the call.
C7_InputUntouched == Relabeled => y = y0

\* C7 witness: the caller's array holds the relabeled ids, the call wrote them
\* in place.
C7_InputRelabeled == Relabeled /\ y # y0 /\ y = result

(***************************************************************************)
(* count_pairs                                                             *)
(*                                                                         *)
(* A 5-D tensor is a sequence over the batch axis of matrices; y[b] has    *)
(* the axes (time, pixel) in channels_last and (channel, time) in          *)
(* channels_first, so that zaxis is axis time_axis of y[b].  A probability *)
(* is the fraction <<n, d>>.                                               *)
(***************************************************************************)
\* the tensors of at most `cells` elements: batch x axis 1 x axis 2
Tensors(cells) ==
    {<<>>} \cup
    UNION {[1..s[1] -> [1..s[2] -> [1..s[3] -> Labels]]] :
             s \in {t \in (1..cells) \X (1..cells) \X (1..cells) :
                      t[1] * t[2] * t[3] <= cells}}

Probabilities == {<<k, ProbDen>> : k \in 1..ProbDen}

\* p < q for fractions with positive denominators
ProbLess(p, q) == p[1] * q[2] < q[1] * p[2]

NumCellsNoBackground(frame) == Len(DeleteZero(Unique(frame)))

\* num_cells = len(np.unique(y[b, f, :, :, :]))
NumCells(frame) == Len(Unique(frame))

\* n // same_probability: the floor of the quotient
FloorDivProb(n, p) == (n * p[2]) \div p[1]

\* the body of the loop over b: the pairs of one batch item
CellPairings(yb, p, fmt) ==
    LET num_frames == ShapeAt(yb, time_axis(fmt))
        cells_per_image == [f \in 1..num_frames |-> NumCells(FrameOf(yb, f, fmt))]
        average_cells_per_frame == SumSeq(cells_per_image) \div num_frames
        non_self_cellframes == (average_cells_per_frame - 1) * num_frames
        non_self_pairings == non_self_cellframes * MaxSeq(cells_per_image)
    IN  FloorDivProb(non_self_pairings, p)

\* total_pairs after the loop over the batch axis
CountPairs(t, p, fmt) ==
    SumSeq([b \in 1..Len(t) |-> CellPairings(t[b], p, fmt)])

InitPairs ==
    /\ op = "start"
    /\ y \in Tensors(MaxTensorCells)
    /\ y0 = y
    /\ data_format \in {"channels_first", "channels_last"}
    /\ same_probability = <<1, 2>>
    /\ prev = <<>>
    /\ result = 0
    /\ uid = <<>>
    /\ filename = None /\ lineages = None /\ raw = None /\ tracked = None
    /\ files = None /\ io = <<>>

count_pairs ==
    \E p \in Probabilities :
        /\ op' = "count_pairs"
        /\ same_probability' = p
        /\ result' = CountPairs(y, p, data_format)
        /\ prev' = IF op = "start" THEN <<>> ELSE <<same_probability, result>>
        /\ UNCHANGED <<y, y0, uid, data_format, filename, lineages, raw, tracked,
                       files, io>>

NextPairs == count_pairs

SpecPairs == InitPairs /\ [][NextPairs]_vars

(***************************************************************************)
(* Properties of count_pairs.                                              *)
(***************************************************************************)
Counted == op = "count_pairs"

\* C5: the estimate is a non-negative integer, and of two calls on the same
\* tensor the one with the smaller probability returns at least as much.
C5_NonNegativeMonotone ==
    Counted =>
        /\ result \in Nat
        /\ prev # <<>> =>
              /\ ProbLess(prev[1], same_probability) => prev[2] >= result
              /\ ProbLess(same_probability, prev[1]) => result >= prev[2]

\* the frames of batch item b, by the layout
BatchFrames(b) ==
    {FrameOf(y[b], f, data_format) : f \in 1..ShapeAt(y[b], time_axis(data_format))}

FrameLabels(frame) == {frame[p] : p \in DOMAIN frame} \ {0}

\* C5 witness: two calls with p1 < p2 on a tensor that has a frame without
\* cells, the call with p1 returning strictly more.
C5_Witness ==
    /\ Counted
    /\ prev # <<>>
    /\ ProbLess(prev[1], same_probability)
    /\ prev[2] > result
    /\ \E b \in DOMAIN y : \E fr \in BatchFrames(b) : FrameLabels(fr) = {}

\* the contribution of batch item b as C8 states it: cells are the distinct
\* non-background labels
ClaimedPairings(b) ==
    LET num_frames == ShapeAt(y[b], time_axis(data_format))
        counts == [f \in 1..num_frames |->
                     Cardinality(FrameLabels(FrameOf(y[b], f, data_format)))]
        avg    == SumSeq(counts) \div num_frames
    IN  ((avg - 1) * num_frames * MaxSeq(counts) * same_probability[2])
            \div same_probability[1]

\* C8 as claimed: the result is the sum over the batch items of
\* floor((avg - 1) * num_frames * max / same_probability), the per-frame count
\* being the number of distinct non-background labels.
C8_PerBatchFormula ==
    Counted => result = SumSeq([b \in 1..Len(y) |-> ClaimedPairings(b)])

\* C8 witness: a call on a tensor one of whose frames has a background pixel,
\* which the code counts as one more cell.
C8_BackgroundCounted ==
    /\ Counted
    /\ \E b \in DOMAIN y : \E fr \in BatchFrames(b) :
          NumCells(fr) = Cardinality(FrameLabels(fr)) + 1

(***************************************************************************)
(* Strings and paths.                                                      *)
(***************************************************************************)
\* str.lower() of one character
LowerChar(c) ==
    CASE c = "T" -> "t"
      [] c = "R" -> "r"
      [] c = "K" -> "k"
      [] c = "S" -> "s"
      [] OTHER   -> c

\* str.lower()
Lower(str) == [i \in DOMAIN str |-> LowerChar(str[i])]

\* str.endswith(suffix)
EndsWith(str, suffix) ==
    /\ Len(str) >= Len(suffix)
    /\ SubSeq(str, Len(str) - Len(suffix) + 1, Len(str)) = suffix

\* str.rfind(c), counted from 1; 0 when c does not occur
RFind(str, c) ==
    IF \E i \in DOMAIN str : str[i] = c
    THEN CHOOSE i \in DOMAIN str : str[i] = c /\ \A j \in DOMAIN str : str[j] = c => j <= i
    ELSE 0

\* os.path.splitext(path)[1]: the part from the last dot of the last path
\* component on, unless only dots precede that dot in the component
SplitExt(path) ==
    LET sepIndex == RFind(path, "/")
        dotIndex == RFind(path, ".")
    IN  IF /\ dotIndex > sepIndex
           /\ \E k \in (sepIndex + 1)..(dotIndex - 1) : path[k] # "."
        THEN SubSeq(path, dotIndex, Len(path))
        ELSE <<>>

DotTrks == <<".", "t", "r", "k", "s">>
DotTrk == <<".", "t", "r", "k">>

Filenames ==
    { <<"a", ".", "t", "r", "k", "s">>,
      <<"a", ".", "T", "R", "K", "S">>,
      <<".", "t", "r", "k", "s">>,
      <<"a", ".", "t", "r", "k">>,
      <<"a", ".", "T", "R", "K">>,
      <<"a", ".", "t", "x", "t">>,
      <<"a", "t", "r", "k", "s">> }

(***************************************************************************)
(* Serialization: json and npy.                                            *)
(***************************************************************************)
DigitChars == <<"0", "1", "2", "3", "4", "5", "6", "7", "8", "9">>

\* str(n) for n >= 0
RECURSIVE Digits(_)
Digits(n) ==
    IF n < 10 THEN <<DigitChars[n + 1]>>
    ELSE Digits(n \div 10) \o <<DigitChars[(n % 10) + 1]>>

\* the key json.dump writes for the integer key n
IntToStr(n) == IF n < 0 THEN <<"-">> \o Digits(-n) ELSE Digits(n)

DigitValue(c) == CHOOSE d \in 0..9 : DigitChars[d + 1] = c

RECURSIVE ParseDigits(_, _)
ParseDigits(str, acc) ==
    IF str = <<>> THEN acc
    ELSE ParseDigits(Tail(str), 10 * acc + DigitValue(str[1]))

\* int(k)
StrToInt(str) ==
    IF str[1] = "-" THEN -ParseDigits(Tail(str), 0) ELSE ParseDigits(str, 0)

\* json.dump of one lineage graph: integer keys become strings
JsonGraph(tracks) ==
    [k \in {IntToStr(c) : c \in DOMAIN tracks} |->
        tracks[CHOOSE c \in DOMAIN tracks : IntToStr(c) = k]]

\* json.dump(lineages, lineages_file, indent=1)
JsonDump(lins) == [i \in DOMAIN lins |-> JsonGraph(lins[i])]

\* {int(k): v for k, v in tracks.items()}
IntKeys(tracks) ==
    [c \in {StrToInt(k) : k \in DOMAIN tracks} |->
        tracks[CHOOSE k \in DOMAIN tracks : StrToInt(k) = c]]

\* the shape <<batch, frames, pixels>> of a tensor
Shape(t) == <<Len(t), Len(t[1]), Len(t[1][1])>>

\* np.save: the shape and the elements in C order
NpSave(t) ==
    LET sh == Shape(t)
    IN  [shape |-> sh,
         data  |-> [n \in 1..(sh[1] * sh[2] * sh[3]) |->
                      t[((n - 1) \div (sh[2] * sh[3])) + 1]
                       [(((n - 1) \div sh[3]) % sh[2]) + 1]
                       [((n - 1) % sh[3]) + 1]]]

\* np.load
NpLoad(blob) ==
    LET sh == blob.shape
    IN  [b \in 1..sh[1] |-> [f \in 1..sh[2] |-> [p \in 1..sh[3] |->
            blob.data[(b - 1) * sh[2] * sh[3] + (f - 1) * sh[3] + p]]]]

(***************************************************************************)
(* save_trks                                                               *)
(***************************************************************************)
SaveAcceptsNoDot(fname) == EndsWith(Lower(fname), Tail(DotTrks))

\* not (not str(filename).lower().endswith('.trks'))
SaveAccepts(fname) == EndsWith(Lower(fname), DotTrks)

\* the archive save_trks writes: three named members
TrksArchive(lins, X, t) ==
    [member \in {"lineages.json", "raw.npy", "tracked.npy"} |->
        CASE member = "lineages.json" -> JsonDump(lins)
          [] member = "raw.npy"       -> NpSave(X)
          [] member = "tracked.npy"   -> NpSave(t)]

\* the filesystem operations of a save that passes the guard
SaveIo(fname) ==
    << <<"tarfile.open", fname, "w">>,
       <<"NamedTemporaryFile", "lineages.json">>,
       <<"add", "lineages.json">>, <<"delete", "lineages.json">>,
       <<"NamedTemporaryFile", "raw.npy">>,
       <<"add", "raw.npy">>, <<"delete", "raw.npy">>,
       <<"NamedTemporaryFile", "tracked.npy">>,
       <<"add", "tracked.npy">>, <<"delete", "tracked.npy">> >>

\* the filesystem with path fname holding archive a
WriteFile(fs, fname, a) ==
    [f \in DOMAIN fs \cup {fname} |-> IF f = fname THEN a ELSE fs[f]]

(***************************************************************************)
(* load_trks                                                               *)
(***************************************************************************)
Raised(error) == [status |-> error]

LoadTrks(fs, fname) ==
    IF fname \notin DOMAIN fs THEN Raised("FileNotFoundError")
    ELSE
    LET trks == fs[fname]
        file_extension == SplitExt(fname)
    IN  IF "raw.npy" \notin DOMAIN trks \/ "tracked.npy" \notin DOMAIN trks
        THEN Raised("KeyError")
        ELSE IF file_extension = DotTrks
        THEN IF "lineages.json" \notin DOMAIN trks THEN Raised("KeyError")
             ELSE [status   |-> "ok",
                   lineages |-> [i \in DOMAIN trks["lineages.json"] |->
                                    IntKeys(trks["lineages.json"][i])],
                   X |-> NpLoad(trks["raw.npy"]),
                   y |-> NpLoad(trks["tracked.npy"])]
        ELSE IF file_extension = DotTrk
        THEN IF "lineage.json" \notin DOMAIN trks THEN Raised("KeyError")
             ELSE [status   |-> "ok",
                   lineages |-> <<IntKeys(trks["lineage.json"])>>,
                   X |-> NpLoad(trks["raw.npy"]),
                   y |-> NpLoad(trks["tracked.npy"])]
        ELSE Raised("UnboundLocalError")

(***************************************************************************)
(* trks_stats                                                              *)
(***************************************************************************)
\* not (ext not in {'.trks', '.trk'}), ext = os.path.splitext(filename)[-1].lower()
StatsAccepts(fname) == Lower(SplitExt(fname)) \in {DotTrks, DotTrk}

\* cells_in_frame = len(np.unique(frame)) - 1
CellsInFrame(frame) == Len(Unique(frame)) - 1

NumDivAllTracks(daughter_batch) == Cardinality(DOMAIN daughter_batch)

\* len([c for c in daughter_batch if daughter_batch[c]])
NumDivInBatch(daughter_batch) ==
    Cardinality({c \in DOMAIN daughter_batch : daughter_batch[c] # <<>>})

\* the frames of batch item `yb` in which cell_id occurs
FrameCount(yb, cell_id) ==
    Cardinality({f \in DOMAIN yb : \E p \in DOMAIN yb[f] : yb[f][p] = cell_id})

\* the statistics computed from a loaded archive
Statistics(training_data) ==
    LET X == training_data.X
        yy == training_data.y
        daughters == [i \in DOMAIN training_data.lineages |->
                        [c \in DOMAIN training_data.lineages[i] |->
                            training_data.lineages[i][c].daughters]]
        frame_area == Shape(X)[3]
        num_cells_in_frame == [b \in DOMAIN yy |-> [f \in DOMAIN yy[b] |->
                                  CellsInFrame(yy[b][f])]]
        cells_total == SumSeq([b \in DOMAIN yy |-> SumSeq(num_cells_in_frame[b])])
    IN  IF Len(daughters) > Len(yy) THEN Raised("IndexError")
        ELSE
        [status |-> "ok",
         num_lineages |-> Len(training_data.lineages),
         num_cells_in_frame |-> num_cells_in_frame,
         \* avg_cells_per_sq_pixel * 100 as the fraction <<n, d>>
         cell_density |-> <<100 * cells_total,
                            Len(yy) * Len(yy[1]) * frame_area>>,
         total_tracks |-> SumSeq([i \in DOMAIN daughters |->
                                    Cardinality(DOMAIN daughters[i])]),
         total_divisions |-> SumSeq([i \in DOMAIN daughters |->
                                       NumDivInBatch(daughters[i])]),
         frame_counts |-> [i \in DOMAIN daughters |->
                              LET ids == SortAsc(DOMAIN daughters[i])
                              IN  [k \in DOMAIN ids |-> FrameCount(yy[i], ids[k])]]]

TrksStats(fs, fname) ==
    IF ~StatsAccepts(fname) THEN Raised("ValueError")
    ELSE LET training_data == LoadTrks(fs, fname)
         IN  IF training_data.status # "ok" THEN training_data
             ELSE Statistics(training_data)

(***************************************************************************)
(* The archive scenario: the caller holds one path and one data set, saves *)
(* it, loads it and asks for its statistics, in any order and any number   *)
(* of times.  A single-batch archive (.trk) is written by other tools, so  *)
(* it may only be on the disk from the start.                              *)
(***************************************************************************)
TrackIds == (1..MaxTrackLabel) \cup {WideId}

DaughterLists == {<<>>, <<WideId>>}

\* the lineage graphs of at most m entries
Graphs(m) ==
    UNION {[S -> [daughters : DaughterLists]] :
             S \in {T \in SUBSET TrackIds : Cardinality(T) <= m}}

\* the lists of b lineage graphs of at most m entries in all
LineageLists(b, m) ==
    {l \in [1..b -> Graphs(m)] :
        SumSeq([i \in 1..b |-> Cardinality(DOMAIN l[i])]) <= m}

TrackedTensors ==
    UNION {[1..s[1] -> [1..s[2] -> [1..s[3] -> 0..MaxTrackLabel]]] :
             s \in {t \in (1..MaxArchiveSize) \X (1..MaxArchiveSize) \X (1..MaxArchiveSize) :
                      t[1] * t[2] * t[3] <= MaxArchiveSize}}

NumElements(t) == Len(t) * Len(t[1]) * Len(t[1][1])

\* a raw tensor of the shape of t
RawLike(t) == [b \in DOMAIN t |-> [f \in DOMAIN t[b] |-> [p \in DOMAIN t[b][f] |->
                  RawIntensity]]]

\* a single-batch archive: lineage.json holds one graph
TrkArchive(tracks, X, t) ==
    [member \in {"lineage.json", "raw.npy", "tracked.npy"} |->
        CASE member = "lineage.json" -> JsonGraph(tracks)
          [] member = "raw.npy"      -> NpSave(X)
          [] member = "tracked.npy"  -> NpSave(t)]

InitArchive ==
    /\ op = "start"
    /\ filename \in Filenames
    /\ tracked \in TrackedTensors
    /\ lineages \in LineageLists(Len(tracked), MaxArchiveSize - NumElements(tracked))
    /\ raw = RawLike(tracked)
    /\ files \in {<<>>} \cup
                 IF Lower(SplitExt(filename)) = DotTrk /\ Len(lineages) = 1
                 THEN {WriteFile(<<>>, filename, TrkArchive(lineages[1], raw, tracked))}
                 ELSE {}
    /\ io = <<>>
    /\ result = Raised("none")
    /\ y = None /\ y0 = None /\ uid = <<>> /\ data_format = None
    /\ same_probability = None /\ prev = <<>>

save_trks ==
    /\ op' = "save_trks"
    /\ IF ~SaveAccepts(filename)
       THEN /\ result' = Raised("ValueError")
            /\ io' = <<>>
            /\ files' = files
       ELSE /\ result' = Raised("ok")
            /\ io' = SaveIo(filename)
            /\ files' = WriteFile(files, filename, TrksArchive(lineages, raw, tracked))
    /\ UNCHANGED <<y, y0, uid, data_format, same_probability, prev, filename,
                   lineages, raw, tracked>>

load_trks ==
    /\ op' = "load_trks"
    /\ result' = LoadTrks(files, filename)
    /\ io' = << <<"tarfile.open", filename, "r">> >>
    /\ UNCHANGED <<y, y0, uid, data_format, same_probability, prev, filename,
                   lineages, raw, tracked, files>>

trks_stats ==
    /\ op' = "trks_stats"
    /\ result' = TrksStats(files, filename)
    /\ io' = IF StatsAccepts(filename)
             THEN << <<"tarfile.open", filename, "r">> >>
             ELSE <<>>
    /\ UNCHANGED <<y, y0, uid, data_format, same_probability, prev, filename,
                   lineages, raw, tracked, files>>

NextArchive == save_trks \/ load_trks \/ trks_stats

SpecArchive == InitArchive /\ [][NextArchive]_vars

(***************************************************************************)
(* Properties of the archive codec and of the statistics.                  *)
(***************************************************************************)
\* the path holds the archive save_trks wrote from the caller's data
Saved ==
    /\ filename \in DOMAIN files
    /\ files[filename] = TrksArchive(lineages, raw, tracked)

\* C2 as claimed: load_trks of the file save_trks wrote returns X equal to raw,
\* y equal to tracked and the lineage graphs equal to the input, keyed by
\* integers again.
C2_RoundTrip ==
    (op = "load_trks" /\ Saved) =>
        result = [status |-> "ok", lineages |-> lineages, X |-> raw, y |-> tracked]

\* The round trip holds when the extension is spelled in lower case.
RoundTripLowerCase ==
    (op = "load_trks" /\ Saved /\ SplitExt(filename) = DotTrks) =>
        result = [status |-> "ok", lineages |-> lineages, X |-> raw, y |-> tracked]

\* C2 witness: load_trks has run on the archive save_trks wrote and returned
\* nothing.
C2_SavedButNotLoaded ==
    op = "load_trks" /\ Saved /\ result.status = "UnboundLocalError"

\* the letters of the suffix .trks, in either case
TrksLetters == << {"."}, {"t", "T"}, {"r", "R"}, {"k", "K"}, {"s", "S"} >>

\* the path ends in .trks, compared without regard to case
HasTrksSuffix(path) ==
    /\ Len(path) >= 5
    /\ \A i \in 1..5 : path[Len(path) - 5 + i] \in TrksLetters[i]

\* the call that just ran was given a path its guard must refuse
RefusedCall ==
    \/ op' = "save_trks" /\ ~HasTrksSuffix(filename)
    \/ op' = "trks_stats" /\ Lower(SplitExt(filename)) \notin {DotTrk, DotTrks}

\* C3: save_trks on a path that does not end in .trks, and trks_stats on a path
\* whose extension is neither .trk nor .trks, raise ValueError without a single
\* filesystem operation, and the filesystem is as it was before the call.
C3_ExtensionGuard ==
    [][RefusedCall =>
          /\ result'.status = "ValueError"
          /\ io' = <<>>
          /\ files' = files]_vars

\* C3 witness: save_trks has refused the path of an archive that is on the
\* disk, and the archive is still there.
C3_Witness ==
    /\ op = "save_trks"
    /\ ~HasTrksSuffix(filename)
    /\ result.status = "ValueError"
    /\ filename \in DOMAIN files

StatsDone == op = "trks_stats" /\ result.status = "ok"

\* C6: total_tracks is the sum over the batch items of the number of entries
\* of the item's lineage graph, and total_divisions the sum of the number of
\* entries whose daughters list is not empty.
C6_TrackAndDivisionTotals ==
    StatsDone =>
        /\ result.total_tracks =
              SumSeq([i \in DOMAIN lineages |-> Cardinality(DOMAIN lineages[i])])
        /\ result.total_divisions =
              SumSeq([i \in DOMAIN lineages |->
                        Cardinality({c \in DOMAIN lineages[i] :
                                       Len(lineages[i][c].daughters) > 0})])

\* C6 witness (scenario B): two batch items of one entry each, both with
\* daughters, give 2 tracks and 2 divisions.
C6_Witness ==
    /\ StatsDone
    /\ Len(lineages) = 2
    /\ \A i \in 1..2 :
          /\ Cardinality(DOMAIN lineages[i]) = 1
          /\ \A c \in DOMAIN lineages[i] : lineages[i][c].daughters # <<>>
    /\ result.total_tracks = 2
    /\ result.total_divisions = 2

\* C9 as claimed: the count of every frame that enters the density average is
\* the number of distinct non-background labels of the frame.
C9_LiveCellCount ==
    StatsDone =>
        \A b \in DOMAIN tracked : \A f \in DOMAIN tracked[b] :
            result.num_cells_in_frame[b][f] =
                Cardinality({tracked[b][f][p] : p \in DOMAIN tracked[b][f]} \ {0})

\* C9 witness: a frame without a background pixel is counted one short.
C9_CountedOneShort ==
    /\ StatsDone
    /\ \E b \in DOMAIN tracked : \E f \in DOMAIN tracked[b] :
          /\ \A p \in DOMAIN tracked[b][f] : tracked[b][f][p] # 0
          /\ result.num_cells_in_frame[b][f] =
                Cardinality({tracked[b][f][p] : p \in DOMAIN tracked[b][f]}) - 1

\* C10 as claimed: for every path that save_trks accepts or that passes the
\* guard of trks_stats, load_trks on the archive stored under it selects a
\* form and returns the lineages as a list of graphs keyed by integers.
C10_FormSelected ==
    (/\ op = "load_trks"
     /\ filename \in DOMAIN files
     /\ HasTrksSuffix(filename) \/ Lower(SplitExt(filename)) \in {DotTrk, DotTrks})
        => /\ result.status = "ok"
           /\ result.lineages = lineages

\* C10 witness: the path passes the guard of trks_stats, its archive is on the
\* disk, and load_trks reached its return statement with lineages unassigned.
C10_Witness ==
    /\ op = "load_trks"
    /\ filename \in DOMAIN files
    /\ Lower(SplitExt(filename)) \in {DotTrk, DotTrks}
    /\ result.status = "UnboundLocalError"

====
